---- MODULE Spec2Model ----
(***************************************************************************)
(* video2hls: rendition planning (fix_options) and master playlist         *)
(* assembly (transcode), modelled from src/video2hls_lib.py.               *)
(*                                                                         *)
(* Numbers.  Python ints are TLA+ integers.  The floats of the pruning     *)
(* tests and of contained_in are IEEE-754 binary64 values computed bit by  *)
(* bit.  The scale factors and the parsed ratio are exact rationals, and   *)
(* int(x) of a product or quotient with them is its floor: on the input    *)
(* sets used below CPython's float results and these floors agree.         *)
(***************************************************************************)
EXTENDS Integers, Sequences, FiniteSets, TLC

VARIABLES
    options,     \* the argparse Namespace handed to fix_options/transcode
    technical,   \* probe() result: video width/height, audio present or not
    pc,          \* position of the run
    err,         \* exception that ended the run, "none" otherwise
    calls,       \* number of times fix_options was entered on this object
    given,       \* the options object as it was when fix_options was entered
    length,      \* fix_options local: length = len(options.video_widths)
    playlists,   \* transcode local: playlists[idx] = name and resolution
    master,      \* lines written to options.hls_master_playlist
    no_codecs,   \* transcode local: codec signalling switched off
    idx,         \* transcode local: loop position in "for idx in playlists"
    call_args,   \* arguments of a helper function called on its own
    call_ret     \* what that call returned or raised

vars == <<options, technical, pc, err, calls, given, length,
          playlists, master, no_codecs, idx, call_args, call_ret>>

(***************************************************************************)
(* Bounds of the explored input space.                                     *)
(***************************************************************************)
MaxWidths == 2
MaxVec == 3
MaxPrefixes == 2
MaxCalls == 2
MaxBox == 12
MaxLines == 4

(***************************************************************************)
(* Values.                                                                 *)
(***************************************************************************)
\* None, an int, or a float n/d (in lowest terms).
PyNone == [t |-> "None", n |-> 0, d |-> 1]

PyInt(n) == [t |-> "int", n |-> n, d |-> 1]

RECURSIVE GCD(_, _)
GCD(a, b) == IF b = 0 THEN a ELSE GCD(b, a % b)

PyFloat(n, d) ==
    LET g == GCD(n, d) IN
    IF g = 0 THEN [t |-> "float", n |-> 0, d |-> 1]
    ELSE [t |-> "float", n |-> n \div g, d |-> d \div g]

\* Python truthiness of None / int / float: "if options.mp4_bitrate:"
Truthy(x) == x.t # "None" /\ x.n # 0

\* int(r * f) for an int r >= 0 and a float f = n/d >= 0
IntTimes(r, f) == (r * f.n) \div f.d

\* value[0] taken where value[-1] is meant
Last_first(s) == s[1]

\* value[-1] and [x] * k
Last(s) == s[Len(s)]

RECURSIVE Repeat(_, _)
Repeat(x, k) == IF k <= 0 THEN <<>> ELSE <<x>> \o Repeat(x, k - 1)

\* del value[length:]
DelFrom(value, n) == IF Len(value) > n THEN SubSeq(value, 1, n) ELSE value

\* del value[i] for a 0-based i; IndexError when i is out of range
DelAt(value, i) ==
    IF i + 1 > Len(value) THEN [ok |-> FALSE, v |-> value]
    ELSE [ok |-> TRUE,
          v |-> SubSeq(value, 1, i) \o SubSeq(value, i + 2, Len(value))]

\* max(*args): TypeError for no argument and for one int argument
RECURSIVE SeqMax(_)
SeqMax(s) ==
    IF Len(s) = 1 THEN s[1]
    ELSE LET m == SeqMax(Tail(s)) IN IF s[1] >= m THEN s[1] ELSE m

PyMax(args) ==
    IF Len(args) < 2 THEN [ok |-> FALSE, v |-> 0]
    ELSE [ok |-> TRUE, v |-> SeqMax(args)]

\* list.index(x): 0-based position of the first x, ValueError when absent
RECURSIVE IndexFrom(_, _, _)
IndexFrom(s, x, i) ==
    IF i > Len(s) THEN [ok |-> FALSE, v |-> 0]
    ELSE IF s[i] = x THEN [ok |-> TRUE, v |-> i - 1]
    ELSE IndexFrom(s, x, i + 1)

Index(s, x) == IndexFrom(s, x, 1)

\* str(n) for an int n >= 0, as the sequence of its decimal digits
RECURSIVE Str(_)
Str(n) == IF n < 10 THEN <<n>> ELSE Str(n \div 10) \o <<n % 10>>

(***************************************************************************)
(* The ratio option: the text "W:H" as the list of its ":"-separated       *)
(* components, each an integer literal or not; after fix_options a float.  *)
(***************************************************************************)
Lit(v) == [isint |-> TRUE, v |-> v]

NotInt == [isint |-> FALSE, v |-> 0]

RatioText(parts) == [kind |-> "str", parts |-> parts, n |-> 0, d |-> 1]

RatioFloat(n, d) ==
    LET f == PyFloat(n, d) IN
    [kind |-> "float", parts |-> <<>>, n |-> f.n, d |-> f.d]

\* options.ratio.split(":", 1): at most two pieces, the second keeps any
\* further ":" and is then no integer literal
Split1(parts) ==
    IF Len(parts) <= 2 THEN parts ELSE <<parts[1], NotInt>>

\* operator.truediv(*(int(x) for x in options.ratio.split(":", 1)))
ParseRatio(ratio) ==
    IF ratio.kind # "str" THEN [err |-> "AttributeError", v |-> ratio]
    ELSE LET pieces == Split1(ratio.parts) IN
         IF \E i \in 1..Len(pieces) : ~pieces[i].isint
         THEN [err |-> "ValueError", v |-> ratio]
         ELSE IF Len(pieces) # 2 THEN [err |-> "TypeError", v |-> ratio]
         ELSE IF pieces[2].v = 0 THEN [err |-> "ZeroDivisionError", v |-> ratio]
         ELSE [err |-> "none", v |-> RatioFloat(pieces[1].v, pieces[2].v)]

\* the text is "<int>:<int>"
WellFormedRatio(ratio) ==
    /\ ratio.kind = "str"
    /\ Len(ratio.parts) = 2
    /\ \A i \in 1..2 : ratio.parts[i].isint

(***************************************************************************)
(* Display names: a caller's text, or the f-string "{h}p".                 *)
(***************************************************************************)
Text(s) == [txt |-> s, h |-> 0]

HeightP(h) == [txt |-> "{}p", h |-> h]

\* int(x / ratio) for an int x >= 0 and a float ratio n/d > 0
IntDiv(x, ratio) == (x * ratio.d) \div ratio.n

(***************************************************************************)
(* Inputs.  The explored inputs are three slices of the option space, each *)
(* varying one group of options around a common base.                      *)
(***************************************************************************)
SeqsUpTo(S, n) == UNION {[1..k -> S] : k \in 0..n}

Prefix(list, n) == SubSeq(list, 1, n)

BitrateList == <<2501, 1, 800, 400>>

CodecList == <<"h264", "hevc", "vp9", "av1">>

ProfileList == <<"high@5.1", "main@3.2", "main@3.1", "baseline@3.0">>

NameList == <<Text("n1"), Text("n2"), Text("n3"), Text("n4")>>

PresetList == <<"slow", "medium", "fast", "veryfast">>

PrefixList == <<"a/", "b/", "c/", "d/">>

WidthSet == {640, 1280, 2000, 2112, 2113, 3840}

Factors == {PyFloat(1, 2), PyFloat(1, 1)}

Ratios == {RatioText(<<Lit(16), Lit(9)>>), RatioText(<<Lit(16), Lit(0)>>),
           RatioText(<<Lit(0), Lit(9)>>), RatioText(<<Lit(16)>>),
           RatioText(<<Lit(16), Lit(9), Lit(1)>>)}

BaseOptions ==
    [hls_playlist_prefix |-> <<>>, hls_add_codecs |-> FALSE,
     audio_only |-> FALSE, audio_separate |-> FALSE, audio_bitrate |-> 96,
     video_widths |-> <<1280>>, video_bitrates |-> <<2501>>,
     video_codecs |-> <<"h264">>, video_profiles |-> <<"main@3.1">>,
     video_names |-> <<>>, video_presets |-> <<>>,
     video_bitrate_factor |-> PyFloat(1, 1),
     ratio |-> RatioText(<<Lit(16), Lit(9)>>),
     poster_width |-> PyNone, poster_max_width |-> 1280,
     mp4 |-> TRUE, mp4_width |-> PyNone, mp4_max_width |-> 1280,
     mp4_bitrate |-> PyNone, mp4_bitrate_factor |-> PyFloat(4, 5)]

BaseTechnical ==
    [video |-> [width |-> 1920, height |-> 1080, r_frame_rate |-> <<30, 1>>],
     audio |-> TRUE]

\* (width, height) of the probed video stream
Sources == {<<1920, 1080>>, <<640, 480>>}

\* vector lengths vary independently of the number of widths
AlignInputs ==
    \E w \in SeqsUpTo({1280, 3840}, MaxWidths), ao \in BOOLEAN,
       nb \in 0..MaxVec, nc \in 0..MaxVec, np \in 0..MaxVec,
       nn \in 0..MaxVec, ns \in 0..MaxVec :
        /\ options = [BaseOptions EXCEPT
                        !.video_widths = w, !.audio_only = ao,
                        !.video_bitrates = Prefix(BitrateList, nb),
                        !.video_codecs = Prefix(CodecList, nc),
                        !.video_profiles = Prefix(ProfileList, np),
                        !.video_names = Prefix(NameList, nn),
                        !.video_presets = Prefix(PresetList, ns)]
        /\ technical = BaseTechnical

\* widths, bitrates, factors and the poster/MP4 options vary
PlanInputs ==
    \E w \in SeqsUpTo(WidthSet, MaxWidths),
       b \in SeqsUpTo({1, 2501}, MaxWidths) \ {<<>>},
       ao \in BOOLEAN, f \in Factors,
       pw \in {PyNone, PyInt(640)}, mb \in {PyNone, PyInt(1)},
       src \in Sources :
        /\ options = [BaseOptions EXCEPT
                        !.video_widths = w, !.video_bitrates = b,
                        !.audio_only = ao, !.video_bitrate_factor = f,
                        !.poster_width = pw, !.mp4_width = pw,
                        !.mp4_max_width = 2000, !.mp4_bitrate = mb]
        /\ technical = [BaseTechnical EXCEPT !.video.width = src[1],
                                             !.video.height = src[2]]

\* prefixes, audio modes, codec signalling and the ratio text vary
ManifestInputs ==
    \E np \in 0..MaxPrefixes, ac \in BOOLEAN, ao \in BOOLEAN, as \in BOOLEAN,
       w \in SeqsUpTo({640, 1280, 3840}, MaxWidths),
       b \in {<<2500>>, <<1>>},
       f \in Factors, r \in Ratios, au \in BOOLEAN :
        /\ options = [BaseOptions EXCEPT
                        !.hls_playlist_prefix = Prefix(PrefixList, np),
                        !.hls_add_codecs = ac,
                        !.audio_only = ao, !.audio_separate = as,
                        !.video_widths = w, !.video_bitrates = b,
                        !.video_bitrate_factor = f, !.ratio = r]
        /\ technical = [BaseTechnical EXCEPT !.audio = au]

Init ==
    /\ AlignInputs \/ PlanInputs \/ ManifestInputs
    /\ pc = "prefix"
    /\ err = "none"
    /\ calls = 1
    /\ given = options
    /\ length = 0
    /\ playlists = <<>>
    /\ master = <<>>
    /\ no_codecs = FALSE
    /\ idx = 0
    /\ call_args = <<>>
    /\ call_ret = <<>>

(***************************************************************************)
(* fix_options, one action per block of the function.                      *)
(***************************************************************************)
Rest == <<technical, calls, given, playlists, master, no_codecs, idx,
          call_args, call_ret>>

Raise(e) == pc' = "raised" /\ err' = e

Abort(e) == pc' = "aborted" /\ err' = e

\* the prefix list left as the caller gave it
fix_prefix_asis ==
    /\ pc = "prefix"
    /\ options' = options
    /\ pc' = "audio"
    /\ UNCHANGED <<err, length, Rest>>

\* "If no HLS playlist prefix, use an empty one"
fix_prefix ==
    /\ pc = "prefix"
    /\ options' = IF Len(options.hls_playlist_prefix) = 0
                  THEN [options EXCEPT !.hls_playlist_prefix = <<"">>]
                  ELSE options
    /\ pc' = "audio"
    /\ UNCHANGED <<err, length, Rest>>

\* "If audio only is requested, append a width of 0"
fix_audio ==
    /\ pc = "audio"
    /\ options' = IF options.audio_only \/ options.audio_separate
                  THEN [options EXCEPT !.video_widths = Append(@, 0)]
                  ELSE options
    /\ pc' = "align"
    /\ UNCHANGED <<err, length, Rest>>

\* the options whose name starts with "video_" and ends with "s", in the
\* order vars(options) lists them (the order parse_args declares them)
video_options ==
    <<"video_widths", "video_bitrates", "video_codecs", "video_profiles",
      "video_names", "video_presets">>

\* one pass of "for option in video_options" from position i on; stops at
\* the IndexError of value[-1] on an empty list
RECURSIVE AlignFrom(_, _, _)
AlignFrom(o, i, len) ==
    IF i > Len(video_options) THEN [o |-> o, err |-> "none"]
    ELSE LET option == video_options[i]
             value == DelFrom(o[option], len)
             o1 == [o EXCEPT ![option] = value]
             diff == len - Len(value)
         IN  IF option = "video_names" THEN AlignFrom(o1, i + 1, len)
             ELSE IF option = "video_presets" /\ Len(value) = 0
                  THEN AlignFrom(o1, i + 1, len)
             ELSE IF diff > 0
                  THEN IF Len(value) = 0 THEN [o |-> o1, err |-> "IndexError"]
                       ELSE AlignFrom(
                                [o1 EXCEPT ![option] =
                                     value \o Repeat(Last(value), diff)],
                                i + 1, len)
             ELSE AlignFrom(o1, i + 1, len)

\* "If needed, extend/truncate video options to the same length"
fix_align ==
    /\ pc = "align"
    /\ length' = Len(options.video_widths)
    /\ LET r == AlignFrom(options, 1, length') IN
       /\ options' = r.o
       /\ IF r.err = "none" THEN pc' = "zero" /\ err' = err ELSE Raise(r.err)
    /\ UNCHANGED Rest

\* the block "Fix bitrate when width is 0" left out
ZeroBitrates_skip(widths, bitrates) == bitrates

\* "Fix bitrate when width is 0"
ZeroBitrates(widths, bitrates) ==
    [i \in 1..Len(bitrates) |-> IF widths[i] = 0 THEN 0 ELSE bitrates[i]]

fix_zero ==
    /\ pc = "zero"
    /\ options' = [options EXCEPT !.video_bitrates =
                       ZeroBitrates(options.video_widths, @)]
    /\ pc' = "ratio"
    /\ UNCHANGED <<err, length, Rest>>

\* "Handle ratio"
fix_ratio ==
    /\ pc = "ratio"
    /\ LET r == ParseRatio(options.ratio) IN
       /\ options' = [options EXCEPT !.ratio = r.v]
       /\ IF r.err = "none" THEN pc' = "names" /\ err' = err ELSE Raise(r.err)
    /\ UNCHANGED <<length, Rest>>

\* the list "more": one synthesized name per rendition
MoreNames(o) ==
    [i \in 1..Len(o.video_widths) |->
        IF o.video_bitrates[i] > 0
        THEN HeightP(IntDiv(o.video_widths[i], o.ratio))
        ELSE Text("Audio only")]

\* more[-diff:] for 0 < diff
LastN(s, diff) ==
    IF diff >= Len(s) THEN s ELSE SubSeq(s, Len(s) - diff + 1, Len(s))

\* "Handle video names"; width / 0.0 raises for a rendition with a bitrate
fix_names ==
    /\ pc = "names"
    /\ IF Len(options.video_names) < length
       THEN IF /\ options.ratio.n = 0
               /\ \E i \in 1..Len(options.video_widths) :
                      options.video_bitrates[i] > 0
            THEN options' = options /\ Raise("ZeroDivisionError")
            ELSE /\ options' = [options EXCEPT !.video_names =
                        @ \o LastN(MoreNames(options), length - Len(@))]
                 /\ pc' = "scale" /\ err' = err
       ELSE options' = options /\ pc' = "scale" /\ err' = err
    /\ UNCHANGED <<length, Rest>>

\* "Add bitrate factor to bitrates"
ScaleBitrates(bitrates, f) ==
    [i \in 1..Len(bitrates) |-> IntTimes(bitrates[i], f)]

fix_scale ==
    /\ pc = "scale"
    /\ options' = [options EXCEPT
          !.video_bitrates = ScaleBitrates(@, options.video_bitrate_factor),
          !.mp4_bitrate = IF Truthy(@)
                          THEN PyInt(IntTimes(@.n, options.video_bitrate_factor))
                          ELSE @]
    /\ pc' = "prune"
    /\ UNCHANGED <<err, length, Rest>>

(***************************************************************************)
(* The float arithmetic of pruning and of contained_in: IEEE-754 binary64, *)
(* round to nearest, ties to even.  A float >= 0 is m * 2^e with the       *)
(* 53-bit significand 2^52 <= m < 2^53, or zero.  A significand is a pair  *)
(* <<hi, lo>> standing for hi * 2^26 + lo, so that every intermediate      *)
(* number stays below 2^31.  Values are far from the subnormal and the     *)
(* overflow range.                                                         *)
(***************************************************************************)
Limb == 67108864

BigDbl(x) == LET l == 2 * x[2] IN <<2 * x[1] + l \div Limb, l % Limb>>

BigHalf(x) == <<x[1] \div 2, (x[1] % 2) * (Limb \div 2) + x[2] \div 2>>

BigInc(x) == IF x[2] + 1 = Limb THEN <<x[1] + 1, 0>> ELSE <<x[1], x[2] + 1>>

BigAdd(x, y) ==
    LET l == x[2] + y[2] IN <<x[1] + y[1] + l \div Limb, l % Limb>>

BigSub(x, y) ==
    IF x[2] >= y[2] THEN <<x[1] - y[1], x[2] - y[2]>>
    ELSE <<x[1] - y[1] - 1, x[2] + Limb - y[2]>>

BigGe(x, y) == x[1] > y[1] \/ (x[1] = y[1] /\ x[2] >= y[2])

BigZero == <<0, 0>>

Two52 == <<Limb, 0>>

Two53 == <<2 * Limb, 0>>

FZero == [m |-> BigZero, e |-> 0]

\* m * 2^e for 0 <= m < 2^53, with the significand brought to 53 bits
RECURSIVE Normalize(_, _)
Normalize(m, e) ==
    IF m = BigZero THEN FZero
    ELSE IF BigGe(m, Two52) THEN [m |-> m, e |-> e]
    ELSE IF m[1] = 0 THEN Normalize(<<m[2], 0>>, e - 26)
    ELSE Normalize(BigDbl(m), e - 1)

\* float(n) for an int 0 <= n < 2^31: exact
Float(n) == Normalize(<<n \div Limb, n % Limb>>, 0)

\* (q + 1/2 * rb + less) * 2^e rounded to the nearest float, ties to even;
\* 2^52 <= q < 2^53, rb the next bit, sticky: some lower bit is set
RoundEven(q, rb, sticky, e) ==
    LET up == rb = 1 /\ (sticky \/ q[2] % 2 = 1)
        m == IF up THEN BigInc(q) ELSE q
    IN  IF m = Two53 THEN [m |-> Two52, e |-> e + 1] ELSE [m |-> m, e |-> e]

\* long division: the quotient bits of rem / d, one per step, until the
\* quotient q has reached top; k counts the bits after the point
RECURSIVE DivBits(_, _, _, _, _)
DivBits(q, rem, d, k, top) ==
    IF BigGe(q, top) THEN [q |-> q, rem |-> rem, k |-> k]
    ELSE LET r2 == BigDbl(rem)
             bit == BigGe(r2, d)
         IN  DivBits(IF bit THEN BigInc(BigDbl(q)) ELSE BigDbl(q),
                     IF bit THEN BigSub(r2, d) ELSE r2, d, k + 1, top)

\* x / y for floats x >= 0, y > 0: the quotient of the significands to 54
\* bits (53 and the rounding bit), the upper 27 first, then the lower ones
FDiv(x, y) ==
    IF x.m = BigZero THEN FZero
    ELSE LET one == BigGe(x.m, y.m)
             u == DivBits(IF one THEN <<0, 1>> ELSE BigZero,
                          IF one THEN BigSub(x.m, y.m) ELSE x.m, y.m, 0,
                          <<1, 0>>)
             r == DivBits(u.q, u.rem, y.m, u.k, Two53)
         IN  RoundEven(BigHalf(r.q), r.q[2] % 2, r.rem # BigZero,
                       x.e - y.e - r.k + 1)

\* long multiplication, the bits of the multiplier y from the lowest on:
\* acc is the upper part of the partial product, b1 and b2 the last two
\* bits shifted out of it, sticky whether an earlier one was set
RECURSIVE MulBits(_, _, _, _, _, _, _)
MulBits(acc, b1, b2, sticky, x, y, i) ==
    IF i = 0 THEN [acc |-> acc, b1 |-> b1, b2 |-> b2, sticky |-> sticky]
    ELSE LET sum == IF y[2] % 2 = 1 THEN BigAdd(acc, x) ELSE acc IN
         IF sum[2] % 2 = 1
         THEN MulBits(BigHalf(sum), 1, b1, sticky \/ b2 = 1, x, BigHalf(y),
                      i - 1)
         ELSE MulBits(BigHalf(sum), 0, b1, sticky \/ b2 = 1, x, BigHalf(y),
                      i - 1)

\* x * y for floats x, y >= 0: the product of the significands, the lower
\* 26 bits of y first, then the upper 27
FMul(x, y) ==
    IF x.m = BigZero \/ y.m = BigZero THEN FZero
    ELSE LET l == MulBits(BigZero, 0, 0, FALSE, x.m, <<0, y.m[2]>>, 26)
             r == MulBits(l.acc, l.b1, l.b2, l.sticky, x.m, <<0, y.m[1]>>, 27)
         IN
         IF BigGe(r.acc, Two52)
         THEN RoundEven(r.acc, r.b1, r.sticky \/ r.b2 = 1, x.e + y.e + 53)
         ELSE RoundEven(IF r.b1 = 1 THEN BigInc(BigDbl(r.acc))
                        ELSE BigDbl(r.acc),
                        r.b2, r.sticky, x.e + y.e + 52)

\* x > y for floats x, y >= 0
FGt(x, y) ==
    IF x.m = BigZero THEN FALSE
    ELSE IF y.m = BigZero THEN TRUE
    ELSE x.e > y.e \/ (x.e = y.e /\ x.m # y.m /\ BigGe(x.m, y.m))

\* int(x) for a float 0 <= x < 2^31: the significand shifted right by -e
Trunc(x) ==
    IF -x.e > 53 THEN 0
    ELSE IF -x.e >= 26 THEN x.m[1] \div 2^(-x.e - 26)
    ELSE x.m[1] * 2^(26 + x.e) + x.m[2] \div 2^(-x.e)

\* the float literal 1.1, i.e. 4953959590107546 * 2^-52
OnePointOne == [m |-> <<73819750, 26843546>>, e |-> -52]

\* w >= width * 1.1
WidthTest_inclusive(w, width) ==
    ~FGt(FMul(Float(width), OnePointOne), Float(w))

\* w > width * 1.1, for ints w, width >= 0
WidthTest(w, width) == FGt(Float(w), FMul(Float(width), OnePointOne))

\* w * height / width > height * 1.1, for ints w, height >= 0 and width > 0
HeightTest(w, width, height) ==
    FGt(FDiv(Float(w * height), Float(width)),
        FMul(Float(height), OnePointOne))

\* ">=" where the code compares with ">"
TooLarge_inclusive(w, width, height) ==
    10 * w >= 11 * width /\ 10 * w * height >= 11 * height * width

TooLarge(w, width, height) ==
    WidthTest(w, width) /\ HeightTest(w, width, height)

\* the entry deleted from video_widths only
DelEverywhere_widths(o, i, k) ==
    [o EXCEPT !.video_widths = DelAt(@, i).v]

\* "for option in video_options: try: del getattr(options, option)[idx]"
RECURSIVE DelEverywhere(_, _, _)
DelEverywhere(o, i, k) ==
    IF k > Len(video_options) THEN o
    ELSE DelEverywhere([o EXCEPT ![video_options[k]] = DelAt(@, i).v], i, k + 1)

\* the rendition at i examined and no other
PruneFrom_once(o, i, video) ==
    IF i < 0 THEN o
    ELSE IF TooLarge(o.video_widths[i + 1], video.width, video.height)
         THEN DelEverywhere(o, i, 1)
         ELSE o

\* "for idx in reversed(range(len(options.video_widths)))", i is 0-based
RECURSIVE PruneFrom(_, _, _)
PruneFrom(o, i, video) ==
    IF i < 0 THEN o
    ELSE IF TooLarge(o.video_widths[i + 1], video.width, video.height)
         THEN PruneFrom(DelEverywhere(o, i, 1), i - 1, video)
         ELSE PruneFrom(o, i - 1, video)

\* "Adapt options depending on video size"
fix_prune ==
    /\ pc = "prune"
    /\ options' = PruneFrom(options, Len(options.video_widths) - 1,
                            technical.video)
    /\ pc' = "poster"
    /\ UNCHANGED <<err, length, Rest>>

\* (w for w in options.video_widths if w <= limit)
NotAbove(widths, limit) == SelectSeq(widths, LAMBDA w : w <= limit)

\* try: max(*(...)) except TypeError: width
DefaultWidth(widths, limit, width) ==
    LET m == PyMax(NotAbove(widths, limit)) IN
    IF m.ok THEN PyInt(m.v) ELSE PyInt(width)

fix_poster ==
    /\ pc = "poster"
    /\ options' = IF ~Truthy(options.poster_width)
                  THEN [options EXCEPT !.poster_width =
                            DefaultWidth(options.video_widths,
                                         options.poster_max_width,
                                         technical.video.width)]
                  ELSE options
    /\ pc' = "mp4_width"
    /\ UNCHANGED <<err, length, Rest>>

fix_mp4_width ==
    /\ pc = "mp4_width"
    /\ options' = IF ~Truthy(options.mp4_width)
                  THEN [options EXCEPT !.mp4_width =
                            DefaultWidth(options.video_widths,
                                         options.mp4_max_width,
                                         technical.video.width)]
                  ELSE options
    /\ pc' = "mp4_bitrate"
    /\ UNCHANGED <<err, length, Rest>>

\* try: int(bitrates[widths.index(mp4_width)] * factor)
\* except Exception: bitrates[0] * factor
DefaultBitrate(o) ==
    LET at == Index(o.video_widths, o.mp4_width.n) IN
    IF at.ok
    THEN [err |-> "none",
          v |-> PyInt(IntTimes(o.video_bitrates[at.v + 1],
                               o.mp4_bitrate_factor))]
    ELSE IF Len(o.video_bitrates) = 0 THEN [err |-> "IndexError", v |-> PyNone]
    ELSE [err |-> "none",
          v |-> PyFloat(o.video_bitrates[1] * o.mp4_bitrate_factor.n,
                        o.mp4_bitrate_factor.d)]

fix_mp4_bitrate ==
    /\ pc = "mp4_bitrate"
    /\ IF ~Truthy(options.mp4_bitrate)
       THEN LET r == DefaultBitrate(options) IN
            IF r.err = "none"
            THEN /\ options' = [options EXCEPT !.mp4_bitrate = r.v]
                 /\ pc' = "returned" /\ err' = err
            ELSE options' = options /\ Raise(r.err)
       ELSE options' = options /\ pc' = "returned" /\ err' = err
    /\ UNCHANGED <<length, Rest>>

fix_options ==
    \/ fix_prefix \/ fix_audio \/ fix_align \/ fix_zero \/ fix_ratio
    \/ fix_names \/ fix_scale \/ fix_prune \/ fix_poster \/ fix_mp4_width
    \/ fix_mp4_bitrate

\* fix_options entered again on the object it has normalized
fix_again ==
    /\ pc = "returned"
    /\ calls < MaxCalls
    /\ calls' = calls + 1
    /\ given' = options
    /\ pc' = "prefix"
    /\ UNCHANGED <<options, technical, err, length, playlists, master,
                   no_codecs, idx, call_args, call_ret>>

(***************************************************************************)
(* transcode: the playlists, the encoder run, the master playlist.         *)
(***************************************************************************)
\* contained_in(original, target) for original dimensions > 0
contained_in(original, target) ==
    LET ratio == FDiv(Float(original[1]), Float(original[2]))
        quot == FDiv(Float(target[1]), ratio)
        fits == FGt(quot, Float(target[2]))
        width == IF fits THEN Trunc(FMul(Float(target[2]), ratio))
                 ELSE target[1]
        height == IF fits THEN target[2] ELSE Trunc(quot)
    IN  <<(width \div 2) * 2, (height \div 2) * 2>>

\* playlists[idx] of the "HLS" loop, i is 1-based; the default pattern
\* "{resolution}p_{index}" of hls_segments followed by ".m3u8"
Playlist(o, video, i) ==
    LET resolution == IntDiv(o.video_widths[i], o.ratio) IN
    [name |-> [resolution |-> resolution, index |-> i - 1, ext |-> "m3u8"],
     resolution |-> contained_in(<<video.width, video.height>>,
                                 <<o.video_widths[i], resolution>>)]

\* int(... / options.ratio) is evaluated for the progressive MP4 and for
\* every rendition
DividesByRatio(o) == o.mp4 \/ Len(o.video_widths) > 0

\* the arguments are built, then run(options, "ffmpeg", ...) succeeds or
\* raises RuntimeError
transcode_run ==
    /\ pc = "returned"
    /\ IF DividesByRatio(options) /\ options.ratio.n = 0
       THEN Abort("ZeroDivisionError") /\ playlists' = playlists
       ELSE \E ok \in BOOLEAN :
               IF ok
               THEN /\ playlists' = [i \in 1..Len(options.video_widths) |->
                                        Playlist(options, technical.video, i)]
                    /\ pc' = "master" /\ err' = err
               ELSE Abort("RuntimeError") /\ playlists' = playlists
    /\ UNCHANGED <<options, technical, calls, given, length, master,
                   no_codecs, idx, call_args, call_ret>>

MediaLine(prefix, name) ==
    [tag |-> "#EXT-X-MEDIA", prefix |-> prefix, name |-> name]

\* the first playlist taken where the one of the greatest key is meant
AudioPlaylist_first(pl) == pl[1]

\* playlists[max(playlists.keys())]; the keys are 0..len(video_widths)-1
AudioPlaylist(pl) == pl[Len(pl)]

\* "#EXTM3U", the version, and in separate-audio mode one audio entry per
\* prefix for playlists[max(playlists.keys())]
transcode_header ==
    /\ pc = "master"
    /\ no_codecs' = FALSE
    /\ IF options.audio_separate
       THEN IF Len(playlists) = 0
            THEN /\ master' = <<[tag |-> "#EXTM3U"],
                                [tag |-> "#EXT-X-VERSION", v |-> 4]>>
                 /\ Abort("ValueError")
            ELSE /\ master' =
                       <<[tag |-> "#EXTM3U"],
                         [tag |-> "#EXT-X-VERSION", v |-> 4]>>
                       \o [k \in 1..Len(options.hls_playlist_prefix) |->
                              MediaLine(options.hls_playlist_prefix[k],
                                        AudioPlaylist(playlists).name)]
                 /\ pc' = "variants" /\ err' = err
       ELSE /\ master' = <<[tag |-> "#EXTM3U"],
                           [tag |-> "#EXT-X-VERSION", v |-> 3]>>
            /\ pc' = "variants" /\ err' = err
    /\ idx' = 0
    /\ UNCHANGED <<options, technical, calls, given, length, playlists,
                   call_args, call_ret>>

\* what extract_codecs(options, f"_{idx}.mp4") can do: return identifiers,
\* return "" (no avc1/mp4a sample description), or raise
ExtractOutcomes ==
    {[raised |-> FALSE, v |-> "avc1.64001f,mp4a.40.2"],
     [raised |-> FALSE, v |-> ""],
     [raised |-> TRUE, v |-> ""]}

NoCodecs == [raised |-> FALSE, v |-> ""]

\* the audio bitrate added whether or not there is an audio stream
Bandwidth_always_audio(o, audio, i) == o.video_bitrates[i] + o.audio_bitrate

\* "bandwidth = options.video_bitrates[idx]; if audio: bandwidth += ..."
Bandwidth(o, audio, i) ==
    o.video_bitrates[i] + (IF audio THEN o.audio_bitrate ELSE 0)

\* the two lines one prefix contributes for rendition i (1-based); the
\* attribute text is f"BANDWIDTH={bandwidth}000"
StreamInf(o, audio, pl, i, cd) ==
    [tag |-> "#EXT-X-STREAM-INF",
     bandwidth |-> Str(Bandwidth(o, audio, i)) \o <<0, 0, 0>>,
     resolution |-> IF o.video_bitrates[i] > 0 THEN <<pl[i].resolution>>
                    ELSE <<>>,
     codecs |-> IF cd # "" THEN <<cd>> ELSE <<>>,
     audio |-> IF o.audio_separate THEN <<"audio">> ELSE <<>>,
     name |-> o.video_names[i]]

UriLine(prefix, name) == [tag |-> "URI", prefix |-> prefix, name |-> name]

\* the inner "for prefix in options.hls_playlist_prefix"
VariantLines(o, audio, pl, i, cd) ==
    LET P == Len(o.hls_playlist_prefix) IN
    [k \in 1..(2 * P) |->
        IF k % 2 = 1 THEN StreamInf(o, audio, pl, i, cd)
        ELSE UriLine(o.hls_playlist_prefix[k \div 2], pl[i].name)]

\* the test "if not options.audio_only and ... == 0: continue" left out
Skipped_never(o, i) == FALSE

\* is this iteration skipped by "continue"
Skipped(o, i) == ~o.audio_only /\ o.video_bitrates[i] = 0

\* codecs are extracted in this iteration
Extracts(o, nc) == ~nc /\ o.hls_add_codecs

\* one iteration of "for idx in playlists"
transcode_variant ==
    /\ pc = "variants"
    /\ idx < Len(playlists)
    /\ idx' = idx + 1
    /\ IF Skipped(options, idx + 1)
       THEN UNCHANGED <<master, no_codecs>>
       ELSE \E x \in IF Extracts(options, no_codecs) THEN ExtractOutcomes
                     ELSE {NoCodecs} :
               /\ no_codecs' = (no_codecs \/ x.raised)
               /\ master' = master \o VariantLines(options, technical.audio,
                                                   playlists, idx + 1, x.v)
    /\ UNCHANGED <<options, technical, pc, err, calls, given, length,
                   playlists, call_args, call_ret>>

\* the loop is over; the master playlist is closed
transcode_done ==
    /\ pc = "variants"
    /\ idx = Len(playlists)
    /\ pc' = "written"
    /\ UNCHANGED <<options, technical, err, calls, given, length, playlists,
                   master, no_codecs, idx, call_args, call_ret>>

transcode ==
    transcode_run \/ transcode_header \/ transcode_variant \/ transcode_done

Next == fix_options \/ fix_again \/ transcode

Spec == Init /\ [][Next]_vars

(***************************************************************************)
(* The helper functions called on their own, on arguments drawn from       *)
(* bounded sets.                                                           *)
(***************************************************************************)
\* no run of fix_options/transcode is under way
Idle ==
    /\ options = BaseOptions
    /\ technical = BaseTechnical
    /\ pc = "call"
    /\ err = "none"
    /\ calls = 0
    /\ given = BaseOptions
    /\ length = 0
    /\ playlists = <<>>
    /\ master = <<>>
    /\ no_codecs = FALSE
    /\ idx = 0
    /\ call_ret = <<>>

Program == <<options, technical, err, calls, given, length, playlists, master,
             no_codecs, idx>>

\* source dimensions (positive) and box dimensions (non-negative)
Originals ==
    ({1, 2, 3, 7, 16} \X {1, 2, 3, 6, 9}) \cup {<<1920, 1080>>, <<640, 480>>}

BoxWidths == 0..MaxBox \cup {30, 35, 1280}

BoxHeights == 0..MaxBox \cup {28, 30, 720}

FitInit ==
    /\ Idle
    /\ \E original \in Originals, W \in BoxWidths, H \in BoxHeights :
          call_args = <<original, <<W, H>>>>

call_contained_in ==
    /\ pc = "call"
    /\ call_ret' = contained_in(call_args[1], call_args[2])
    /\ pc' = "done"
    /\ UNCHANGED <<Program, call_args>>

FitSpec == FitInit /\ [][call_contained_in]_vars

\* source sizes (positive) and requested widths for the pruning condition:
\* widths below, at and just above 1.1 times a source width
SourceSizes ==
    ({1, 3, 7, 10, 20, 1000} \X {1, 3, 7, 9, 1081})
    \cup Sources \cup {<<1280, 720>>, <<3840, 2160>>}

RequestedWidths ==
    0..23 \cup {640, 704, 705, 1100, 1101, 1280, 1408, 1409, 2000, 2112,
                2113, 3840, 4224, 4225}

TestInit ==
    /\ Idle
    /\ \E src \in SourceSizes, w \in RequestedWidths :
          call_args = <<src, w>>

\* the condition of the pruning loop for one rendition: both comparisons
\* and their conjunction (the second is evaluated when the first holds)
prune_test ==
    /\ pc = "call"
    /\ LET width == call_args[1][1]
           height == call_args[1][2]
           w == call_args[2]
       IN  call_ret' = [wider |-> WidthTest(w, width),
                        taller |-> HeightTest(w, width, height),
                        skip |-> TooLarge(w, width, height)]
    /\ pc' = "done"
    /\ UNCHANGED <<Program, call_args>>

TestSpec == TestInit /\ [][prune_test]_vars

(***************************************************************************)
(* extract_codecs.  The dump "mp4file --dump" prints is a list of lines; a *)
(* line is modelled by what the function looks at: the number of leading   *)
(* spaces and which of its patterns the line matches.                      *)
(*   "type"            codec_re matches, name is the codec                 *)
(*   "avcC", "esds"    the line contains the path of that atom             *)
(*   "attribute"       attribute_re matches: "<name> = <value> ..."        *)
(*   "decSpecificInfo" the line contains that word                         *)
(*   "info"            "info = <n bytes>  hh ...", byte the two characters *)
(*                     hh as hexadecimal digits                            *)
(*   "other"           none of these                                       *)
(***************************************************************************)
Line(indent, kind, name, value, byte) ==
    [indent |-> indent, kind |-> kind, name |-> name, value |-> value,
     byte |-> byte]

TypeLine(indent, codec) == Line(indent, "type", codec, 0, <<0, 0>>)

AvcCLine(indent) == Line(indent, "avcC", "", 0, <<0, 0>>)

EsdsLine(indent) == Line(indent, "esds", "", 0, <<0, 0>>)

Attribute(indent, name, value) ==
    Line(indent, "attribute", name, value, <<0, 0>>)

DecSpecificInfo(indent) == Line(indent, "decSpecificInfo", "", 0, <<0, 0>>)

InfoLine(indent, b) == Line(indent, "info", "", 0, <<b \div 16, b % 16>>)

OtherLine(indent) == Line(indent, "other", "", 0, <<0, 0>>)

\* None, or a value
Nothing == <<>>

Just(v) == <<v>>

HexDigits ==
    <<"0", "1", "2", "3", "4", "5", "6", "7", "8", "9", "a", "b", "c", "d",
      "e", "f">>

\* f"{n:x}" and f"{n:02x}" for an int n >= 0
RECURSIVE Hex(_)
Hex(n) ==
    IF n < 16 THEN <<HexDigits[n + 1]>>
    ELSE Hex(n \div 16) \o <<HexDigits[(n % 16) + 1]>>

Hex02(n) == IF n < 16 THEN <<"0">> \o Hex(n) ELSE Hex(n)

\* what extract_codecs does: return the identifiers, or raise
Returned(ids) == [raised |-> FALSE, msg |-> "", ids |-> ids]

Raised(msg) == [raised |-> TRUE, msg |-> msg, ids |-> <<>>]

\* f"avc1.{profile:02x}{constraints:02x}{level:02x}"
Avc1Id(profile, constraints, level) ==
    [codec |-> "avc1",
     hex |-> Hex02(profile) \o Hex02(constraints) \o Hex02(level),
     aot |-> "", n |-> 0]

\* f"mp4a.{oti:02x}.{osti}"; osti is an int or still the Ellipsis
Mp4aId(oti, osti) ==
    [codec |-> "mp4a", hex |-> Hex02(oti), aot |-> osti.t, n |-> osti.n]

\* {mo.group("codec") for mo in [codec_re.match(line) ...] if mo}
Codecs(result) ==
    {result[i].name : i \in {j \in 1..Len(result) : result[j].kind = "type"}}

\* the scope test "if not line.startswith(spaces): break" treated as
\* "continue": lines that are not deeper are skipped and the scan goes on
InScope_all(result, j, spaces) == j <= Len(result)

\* line j exists and starts with spaces = " " * (indent of the header + 1)
InScope(result, j, spaces) ==
    j <= Len(result) /\ result[j].indent >= spaces

\* "for line in result[idx + 1:]" of the avc1 branch, from line j on
RECURSIVE ScanAvcC(_, _, _, _)
ScanAvcC(result, j, spaces, found) ==
    IF ~InScope(result, j, spaces) THEN found
    ELSE LET line == result[j] IN
         IF line.kind # "attribute"
         THEN ScanAvcC(result, j + 1, spaces, found)
         ELSE IF line.name = "AVCProfileIndication"
         THEN ScanAvcC(result, j + 1, spaces,
                       [found EXCEPT !.profile = Just(line.value)])
         ELSE IF line.name = "profile_compatibility"
         THEN ScanAvcC(result, j + 1, spaces,
                       [found EXCEPT !.constraints = Just(line.value)])
         ELSE IF line.name = "AVCLevelIndication"
         THEN ScanAvcC(result, j + 1, spaces,
                       [found EXCEPT !.level = Just(line.value)])
         ELSE ScanAvcC(result, j + 1, spaces, found)

\* "for idx, line in enumerate(result)" of the avc1 branch, from line i on
RECURSIVE DecodeAvc1(_, _, _)
DecodeAvc1(result, i, results) ==
    IF i > Len(result) THEN Returned(results)
    ELSE IF result[i].kind # "avcC"
    THEN DecodeAvc1(result, i + 1, results)
    ELSE LET f == ScanAvcC(result, i + 1, result[i].indent + 1,
                           [profile |-> Nothing, constraints |-> Nothing,
                            level |-> Nothing])
         IN  IF f.profile # Nothing /\ f.constraints # Nothing
                /\ f.level # Nothing
             THEN DecodeAvc1(result, i + 1,
                             Append(results,
                                    Avc1Id(f.profile[1], f.constraints[1],
                                           f.level[1])))
             ELSE Raised("unable to decode AVC1 codec")

\* info_re matches only when the first byte is written with two of 0..9
InfoMatches(line) ==
    line.kind = "info" /\ line.byte[1] <= 9 /\ line.byte[2] <= 9

\* (int(mo.group("byte"), 16) & 0xF8) >> 3
ObjectType(byte) == ((16 * byte[1] + byte[2]) \div 8) % 32

Ellipsis == [t |-> "Ellipsis", n |-> 0]

\* "for line in result[idx + 1:]" of the mp4a branch, from line j on
RECURSIVE ScanEsds(_, _, _, _)
ScanEsds(result, j, spaces, found) ==
    IF ~InScope(result, j, spaces) THEN found
    ELSE LET line == result[j] IN
         IF line.kind = "attribute" /\ line.name = "objectTypeId"
         THEN ScanEsds(result, j + 1, spaces,
                       [found EXCEPT !.oti = Just(line.value)])
         ELSE IF line.kind = "decSpecificInfo"
         THEN ScanEsds(result, j + 1, spaces,
                       [found EXCEPT !.osti = Just(Ellipsis)])
         ELSE IF found.osti = Just(Ellipsis)
         THEN IF ~InfoMatches(line) THEN [found EXCEPT !.failed = TRUE]
              ELSE ScanEsds(result, j + 1, spaces,
                            [found EXCEPT !.osti =
                                Just([t |-> "int",
                                      n |-> ObjectType(line.byte)])])
         ELSE ScanEsds(result, j + 1, spaces, found)

\* "for idx, line in enumerate(result)" of the mp4a branch, from line i on
RECURSIVE DecodeMp4a(_, _, _)
DecodeMp4a(result, i, results) ==
    IF i > Len(result) THEN Returned(results)
    ELSE IF result[i].kind # "esds"
    THEN DecodeMp4a(result, i + 1, results)
    ELSE LET f == ScanEsds(result, i + 1, result[i].indent + 1,
                           [oti |-> Nothing, osti |-> Nothing,
                            failed |-> FALSE])
         IN  IF f.failed THEN Raised("cannot decode specific info")
             ELSE IF f.oti # Nothing /\ f.osti # Nothing
             THEN DecodeMp4a(result, i + 1,
                             Append(results, Mp4aId(f.oti[1], f.osti[1])))
             ELSE Raised("unable to decode MP4A codec")

\* "for codec in codecs", the codecs taken in the given order; the codecs
\* other than avc1 and mp4a add nothing
RECURSIVE ForCodecs(_, _, _)
ForCodecs(result, order, results) ==
    IF Len(order) = 0 THEN Returned(results)
    ELSE LET r == IF Head(order) = "avc1" THEN DecodeAvc1(result, 1, results)
                  ELSE IF Head(order) = "mp4a"
                  THEN DecodeMp4a(result, 1, results)
                  ELSE Returned(results)
         IN  IF r.raised THEN r ELSE ForCodecs(result, Tail(order), r.ids)

\* the orders in which a set may be iterated
Orders(S) ==
    {o \in [1..Cardinality(S) -> S] :
        \A c \in S : \E i \in DOMAIN o : o[i] = c}

\* extract_codecs on the dump "result", its set of codecs iterated in "order"
extract_codecs(result, order) == ForCodecs(result, order, <<>>)

\* lines that may follow an avcC header at indentation 2
AvcCBody ==
    {Attribute(3, "AVCProfileIndication", 100),
     Attribute(3, "AVCProfileIndication", 66),
     Attribute(3, "profile_compatibility", 0),
     Attribute(4, "profile_compatibility", 192),
     Attribute(3, "AVCLevelIndication", 31),
     Attribute(2, "AVCLevelIndication", 255),
     Attribute(3, "configurationVersion", 1),
     OtherLine(3),
     OtherLine(1)}

\* a video sample description: the avc1 entry, its avcC atom, more lines
AvcDumps ==
    \E body \in SeqsUpTo(AvcCBody, MaxLines) :
        call_args = <<<<TypeLine(1, "avc1"), AvcCLine(2)>> \o body,
                      <<"avc1">>>>

ObjectTypeIds == {0, 64, 255}

\* the lines of an esds atom at indentation 2: an objectTypeId or none, a
\* decSpecificInfo line or none, a byte dump or none, in several layouts
EsdsBody(oti, dsi, info, layout) ==
    LET o == IF oti = Nothing THEN <<>>
             ELSE <<Attribute(4, "objectTypeId", oti[1])>>
        d == IF dsi THEN <<DecSpecificInfo(4)>> ELSE <<>>
        b == IF info = Nothing THEN <<>> ELSE <<InfoLine(5, info[1])>>
    IN  CASE layout = 1 -> <<OtherLine(3)>> \o o \o d \o b
          [] layout = 2 -> d \o b \o o
          [] layout = 3 -> d \o o \o b
          [] layout = 4 -> o \o d \o <<Attribute(5, "streamType", 5)>> \o b
          [] layout = 5 -> o \o <<OtherLine(2)>> \o d \o b

\* an audio sample description: the mp4a entry, its esds atom, more lines
Mp4aDumps ==
    \E oti \in {Nothing} \cup {Just(t) : t \in ObjectTypeIds},
       dsi \in BOOLEAN,
       info \in {Nothing} \cup {Just(b) : b \in 0..255},
       layout \in 1..5 :
        call_args = <<<<TypeLine(1, "mp4a"), EsdsLine(2)>>
                          \o EsdsBody(oti, dsi, info, layout),
                      <<"mp4a">>>>

\* a sample with both tracks, a sample with none, a truncated sample
BothDumps ==
    \E video \in {<<TypeLine(1, "avc1"), AvcCLine(2),
                     Attribute(3, "AVCProfileIndication", 100),
                     Attribute(3, "profile_compatibility", 0),
                     Attribute(3, "AVCLevelIndication", 31)>>,
                   <<TypeLine(1, "avc1"), AvcCLine(2)>>, <<>>},
       audio \in {<<TypeLine(1, "mp4a"), EsdsLine(2),
                     Attribute(4, "objectTypeId", 64), DecSpecificInfo(4),
                     InfoLine(5, 18)>>,
                   <<TypeLine(1, "mp4a"), EsdsLine(2)>>, <<>>},
       first \in BOOLEAN :
        \E order \in Orders(Codecs(video \o audio)) :
            call_args = <<IF first THEN video \o audio ELSE audio \o video,
                          order>>

DumpInit == Idle /\ (AvcDumps \/ Mp4aDumps \/ BothDumps)

call_extract_codecs ==
    /\ pc = "call"
    /\ call_ret' = extract_codecs(call_args[1], call_args[2])
    /\ pc' = "done"
    /\ UNCHANGED <<Program, call_args>>

DumpSpec == DumpInit /\ [][call_extract_codecs]_vars

(***************************************************************************)
(* Properties of the plan returned by fix_options.                         *)
(***************************************************************************)
\* the width vector the call works on: the caller's, with the audio-only 0
GivenWidths ==
    IF given.audio_only \/ given.audio_separate
    THEN Append(given.video_widths, 0) ELSE given.video_widths

\* some rendition was pruned by this call
SomePruned == Len(options.video_widths) < Len(GivenWidths)

\* C1: after fix_options returns, video_bitrates, video_codecs,
\* video_profiles and video_names have the length of video_widths, and
\* video_presets is empty or has that length.
C1_SameLengths ==
    pc = "returned" =>
        LET n == Len(options.video_widths) IN
        /\ Len(options.video_bitrates) = n
        /\ Len(options.video_codecs) = n
        /\ Len(options.video_profiles) = n
        /\ Len(options.video_names) = n
        /\ Len(options.video_presets) \in {0, n}

\* a return with a 0 appended, a rendition pruned, a vector that was longer
\* and one that was shorter than the widths, and presets given
C1_Witness ==
    /\ pc = "returned"
    /\ given.audio_only
    /\ SomePruned
    /\ Len(given.video_bitrates) > Len(GivenWidths)
    /\ Len(given.video_codecs) < Len(GivenWidths)
    /\ Len(given.video_names) < Len(GivenWidths)
    /\ Len(options.video_presets) > 0

\* C2: in the returned plan every rendition of width 0 has bitrate 0.
C2_ZeroWidthZeroBitrate ==
    pc = "returned" =>
        \A i \in 1..Len(options.video_widths) :
            options.video_widths[i] = 0 => options.video_bitrates[i] = 0

\* a return with a width 0 whose aligned input bitrate was not 0, a scale
\* factor other than 1 and a pruned rendition
C2_Witness ==
    /\ pc = "returned"
    /\ \E i \in 1..Len(options.video_widths) : options.video_widths[i] = 0
    /\ Len(given.video_bitrates) > 0
    /\ Last(given.video_bitrates) > 0
    /\ Len(given.video_bitrates) < Len(GivenWidths)
    /\ options.video_bitrate_factor # PyFloat(1, 1)
    /\ SomePruned

\* r is v cut to its first L elements, or v followed by copies of its last
Aligned(v, r, L) ==
    /\ Len(r) = L
    /\ \A i \in 1..L : r[i] = IF i <= Len(v) THEN v[i] ELSE v[Len(v)]

\* C3: when alignment has run, with L the length of the width vector, each
\* of bitrates, codecs, profiles (and presets when given) is the caller's
\* vector cut to L elements or extended to L by its own last element.
C3_Alignment ==
    pc = "zero" =>
        /\ length = Len(options.video_widths)
        /\ Aligned(given.video_bitrates, options.video_bitrates, length)
        /\ Aligned(given.video_codecs, options.video_codecs, length)
        /\ Aligned(given.video_profiles, options.video_profiles, length)
        /\ Len(given.video_presets) > 0 =>
               Aligned(given.video_presets, options.video_presets, length)

\* alignment has cut one vector and extended two others
C3_Witness ==
    /\ pc = "zero"
    /\ Len(given.video_bitrates) > length
    /\ Len(given.video_codecs) < length
    /\ Len(given.video_presets) > 0
    /\ Len(given.video_presets) < length

\* a exceeds b by more than 10%
ExceedsByTenth(a, b) == 10 * a > 11 * b

\* the rendition of width w is oversized for a W x H source: w exceeds W
\* and the scaled height w*H/W exceeds H, both by more than 10%
Oversized(w, W, H) ==
    /\ ExceedsByTenth(w, W)
    /\ ExceedsByTenth(w * H, H * W)

\* the entries of v at the positions whose width is not oversized
RECURSIVE Retained(_, _, _, _)
Retained(v, widths, video, i) ==
    IF i > Len(v) THEN <<>>
    ELSE (IF Oversized(widths[i], video.width, video.height)
          THEN <<>> ELSE <<v[i]>>)
         \o Retained(v, widths, video, i + 1)

\* C4: the pruning step drops a rendition from every per-rendition vector
\* exactly when it is oversized; a width of exactly 1.1 * W is retained;
\* for 1920x1080, 3840 is dropped and 2000 and 2112 are retained.
C4_Pruning ==
    [][pc = "prune" =>
        /\ \A k \in 1..Len(video_options) :
              options'[video_options[k]] =
                  Retained(options[video_options[k]], options.video_widths,
                           technical.video, 1)
        /\ (technical.video.width = 1920 /\ technical.video.height = 1080) =>
              \A i \in 1..Len(options.video_widths) :
                 LET w == options.video_widths[i]
                     kept == \E j \in 1..Len(options'.video_widths) :
                                options'.video_widths[j] = w
                 IN  /\ w = 3840 => ~kept
                     /\ w \in {2000, 2112} => kept
     ]_vars

\* pruning has dropped 3840 and retained 2000 for the 1920x1080 source
C4_Witness ==
    /\ pc = "poster"
    /\ technical.video.width = 1920 /\ technical.video.height = 1080
    /\ given.video_widths = <<3840, 2000>>
    /\ options.video_widths = <<2000>>
    /\ Len(options.video_bitrates) = 1

\* the largest of a non-empty set of integers
Largest(S) == CHOOSE m \in S : \A x \in S : x <= m

\* the default the specification gives poster_width and mp4_width
LargestNotAbove(widths, limit, width) ==
    LET q == {widths[i] : i \in {j \in 1..Len(widths) : widths[j] <= limit}}
    IN  IF q # {} THEN PyInt(Largest(q)) ELSE PyInt(width)

\* C5: a poster width (resp. fallback MP4 width) that was not supplied is
\* set to the largest plan width not above poster_max_width (resp.
\* mp4_max_width), and to the source width only when no width qualifies.
C5_DefaultWidths ==
    /\ (pc \in {"mp4_width", "mp4_bitrate", "returned"}
           /\ given.poster_width = PyNone) =>
          options.poster_width =
              LargestNotAbove(options.video_widths, options.poster_max_width,
                              technical.video.width)
    /\ (pc \in {"mp4_bitrate", "returned"} /\ given.mp4_width = PyNone) =>
          options.mp4_width =
              LargestNotAbove(options.video_widths, options.mp4_max_width,
                              technical.video.width)

\* the bitrate the fallback MP4 bitrate is derived from: that of the first
\* rendition of width mp4_width, else that of the first rendition
BaseBitrate(o) ==
    LET at == {i \in 1..Len(o.video_widths) :
                  o.video_widths[i] = o.mp4_width.n}
    IN  IF at # {} THEN o.video_bitrates[CHOOSE i \in at : \A j \in at : i <= j]
        ELSE o.video_bitrates[1]

\* C6: a fallback MP4 bitrate that was not supplied is the bitrate of the
\* rendition of width mp4_width, or of the first rendition when there is
\* none, times mp4_bitrate_factor, by the same rule in both cases: the
\* product rounded to an int.
C6_DefaultBitrate ==
    (pc = "returned" /\ given.mp4_bitrate = PyNone) =>
        options.mp4_bitrate =
            PyInt(IntTimes(BaseBitrate(options), options.mp4_bitrate_factor))

\* C7: on a well-typed input fix_options fails only for a ratio text that
\* is not "<int>:<int>".
C7_OnlyRatioFails ==
    (pc = "raised" /\ calls = 1) => ~WellFormedRatio(given.ratio)

\* C8: fix_options applied to the options it has normalized returns, and
\* returns the same plan.
C8_Idempotent ==
    (calls = 2 /\ pc \in {"returned", "raised"}) =>
        (pc = "returned" /\ options = given)

(***************************************************************************)
(* Properties of the master playlist.                                      *)
(***************************************************************************)
StreamInfs == SelectSeq(master, LAMBDA l : l.tag = "#EXT-X-STREAM-INF")

\* C9: when codec extraction has failed for a rendition, no
\* #EXT-X-STREAM-INF entry of the master playlist carries CODECS.
C9_NoCodecsAtAll ==
    (pc = "written" /\ no_codecs) =>
        \A k \in 1..Len(StreamInfs) : StreamInfs[k].codecs = <<>>

\* the renditions (1-based) that become variants, in plan order
RECURSIVE KeptFrom(_)
KeptFrom(i) ==
    IF i > Len(options.video_widths) THEN <<>>
    ELSE (IF options.video_bitrates[i] = 0 /\ ~options.audio_only
          THEN <<>> ELSE <<i>>) \o KeptFrom(i + 1)

Kept == KeptFrom(1)

\* the lines before the first variant
HeaderLen ==
    2 + (IF options.audio_separate THEN Len(options.hls_playlist_prefix)
         ELSE 0)

\* C10: the master playlist holds exactly P*K #EXT-X-STREAM-INF/URI pairs,
\* P the number of prefixes and K the number of renditions that are not
\* (bitrate 0 while audio-only was not requested); renditions are in plan
\* order, the P pairs of a rendition are adjacent and differ only in the
\* prefix of the URI, and a bitrate-0 rendition is a variant if and only if
\* audio-only was requested.
C10_Variants ==
    pc = "written" =>
        LET P == Len(options.hls_playlist_prefix)
            K == Len(Kept)
            line(k) == master[HeaderLen + k]
        IN  /\ Len(master) = HeaderLen + 2 * P * K
            /\ Len(StreamInfs) = P * K
            /\ \A g \in 1..K : \A p \in 1..P :
                  LET inf == line(2 * ((g - 1) * P + p) - 1)
                      uri == line(2 * ((g - 1) * P + p))
                  IN  /\ inf.tag = "#EXT-X-STREAM-INF"
                      /\ uri.tag = "URI"
                      /\ inf = line(2 * (g - 1) * P + 1)
                      /\ inf.name = options.video_names[Kept[g]]
                      /\ uri.prefix = options.hls_playlist_prefix[p]
                      /\ uri.name = playlists[Kept[g]].name
                      /\ uri.name.index = Kept[g] - 1
            /\ \A i \in 1..Len(options.video_widths) :
                  options.video_bitrates[i] = 0 =>
                      ((\E k \in 1..Len(master) :
                           /\ master[k].tag = "URI"
                           /\ master[k].name.index = i - 1)
                       <=> options.audio_only)

\* a playlist with two prefixes, two variants and a skipped audio carrier
C10_Witness ==
    /\ pc = "written"
    /\ Len(options.hls_playlist_prefix) = 2
    /\ Len(Kept) = 2
    /\ Len(options.video_widths) = 3
    /\ options.video_bitrates[3] = 0
    /\ ~options.audio_only
    /\ Len(StreamInfs) = 4

\* the integer a sequence of decimal digits denotes
RECURSIVE Decimal(_)
Decimal(s) ==
    IF Len(s) = 0 THEN 0
    ELSE 10 * Decimal(SubSeq(s, 1, Len(s) - 1)) + s[Len(s)]

\* C11: the BANDWIDTH attribute of every variant denotes 1000 * (the
\* rendition's bitrate in the returned plan + the audio bitrate when the
\* source has an audio stream), for every bitrate including 0; one rendition
\* of width 1280 and bitrate 2500, no audio stream and no prefix gives
\* exactly one #EXT-X-STREAM-INF line, BANDWIDTH=2500000, no AUDIO attribute.
C11_Bandwidth ==
    pc = "written" =>
        LET P == Len(options.hls_playlist_prefix)
            line(k) == master[HeaderLen + k]
        IN  /\ \A g \in 1..Len(Kept) : \A p \in 1..P :
                  Decimal(line(2 * ((g - 1) * P + p) - 1).bandwidth) =
                      1000 * (options.video_bitrates[Kept[g]]
                              + (IF technical.audio
                                 THEN options.audio_bitrate ELSE 0))
            /\ (/\ given.video_widths = <<1280>>
                /\ given.video_bitrates = <<2500>>
                /\ given.video_bitrate_factor = PyFloat(1, 1)
                /\ given.hls_playlist_prefix = <<>>
                /\ ~given.audio_only /\ ~given.audio_separate
                /\ ~technical.audio) =>
                  /\ Len(StreamInfs) = 1
                  /\ StreamInfs[1].bandwidth = <<2, 5, 0, 0, 0, 0, 0>>
                  /\ StreamInfs[1].audio = <<>>

\* a source without audio: a playlist whose audio-only variant has bitrate
\* 0 (BANDWIDTH=0000) next to a variant of bitrate 2500
C11_Witness ==
    /\ pc = "written"
    /\ ~technical.audio
    /\ \E k \in 1..Len(StreamInfs) : StreamInfs[k].bandwidth = <<0, 0, 0, 0>>
    /\ \E k \in 1..Len(StreamInfs) :
          StreamInfs[k].bandwidth = <<2, 5, 0, 0, 0, 0, 0>>

MediaLines == SelectSeq(master, LAMBDA l : l.tag = "#EXT-X-MEDIA")

\* C12: in separate-audio mode the master playlist has exactly one
\* #EXT-X-MEDIA entry per playlist prefix (none otherwise), its URI is that
\* prefix followed by the playlist name of the last rendition of the
\* returned plan, and that rendition is the audio-only carrier (width 0,
\* bitrate 0) whatever renditions were pruned.
C12_AudioGroup ==
    pc \in {"variants", "written"} =>
        IF options.audio_separate
        THEN LET n == Len(options.video_widths) IN
             /\ n > 0
             /\ options.video_widths[n] = 0
             /\ options.video_bitrates[n] = 0
             /\ Len(MediaLines) = Len(options.hls_playlist_prefix)
             /\ \A k \in 1..Len(MediaLines) :
                   /\ MediaLines[k] = master[2 + k]
                   /\ MediaLines[k].prefix = options.hls_playlist_prefix[k]
                   /\ MediaLines[k].name =
                          Playlist(options, technical.video, n).name
                   /\ MediaLines[k].name.index = n - 1
        ELSE MediaLines = <<>>

\* separate audio, two prefixes, a pruned rendition and a retained one
C12_Witness ==
    /\ pc = "written"
    /\ options.audio_separate
    /\ SomePruned
    /\ Len(options.video_widths) = 2
    /\ Len(MediaLines) = 2

\* rendition i (1-based) has a variant: a #EXT-X-STREAM-INF line followed
\* by the URI of its playlist
HasVariant(i) ==
    \E k \in 1..(Len(master) - 1) :
        /\ master[k].tag = "#EXT-X-STREAM-INF"
        /\ master[k + 1].tag = "URI"
        /\ master[k + 1].name.index = i - 1

\* the prefix list is the single empty prefix when none was supplied
DefaultPrefix ==
    (pc # "prefix" /\ given.hls_playlist_prefix = <<>>) =>
        options.hls_playlist_prefix = <<"">>

\* C13 as claimed: when no playlist prefix is supplied the prefix list
\* becomes the single empty prefix, and every master playlist that is
\* written then holds at least one #EXT-X-STREAM-INF variant, whatever
\* widths were requested.
C13_AlwaysAVariant ==
    /\ DefaultPrefix
    /\ (/\ pc = "written"
        /\ given.hls_playlist_prefix = <<>>
        /\ given.video_widths # <<>>) =>
          Len(StreamInfs) >= 1

\* C13 amended: when no playlist prefix is supplied the prefix list becomes
\* the single empty prefix, and every master playlist that is written holds
\* at least one #EXT-X-STREAM-INF variant for each rendition of the returned
\* plan that is not skipped (bitrate 0 while audio-only was not requested);
\* it holds no variant exactly when the plan has no such rendition.
C13_AVariantPerKept ==
    /\ DefaultPrefix
    /\ pc = "written" =>
          /\ \A g \in 1..Len(Kept) : HasVariant(Kept[g])
          /\ (Len(StreamInfs) >= 1) <=> (Len(Kept) >= 1)

\* no prefix supplied: a playlist with a variant for the one rendition that
\* is not skipped, the audio carrier being skipped
C13_Witness ==
    /\ pc = "written"
    /\ given.hls_playlist_prefix = <<>>
    /\ options.hls_playlist_prefix = <<"">>
    /\ Len(options.video_widths) = 2
    /\ Kept = <<1>>
    /\ HasVariant(1)
    /\ Len(StreamInfs) = 1

(***************************************************************************)
(* Properties of contained_in.                                             *)
(***************************************************************************)
\* n rounded down to even
Even(n) == (n \div 2) * 2

\* C14: for positive source dimensions (w, h) and non-negative box
\* dimensions (W, H), contained_in returns (w', h') with w' <= W, h' <= H,
\* both even, and either w' = W rounded down to even and h' = floor(W*h/w)
\* rounded down to even, or h' = H rounded down to even and w' =
\* floor(H*w/h) rounded down to even.
C14_Fit ==
    (pc = "done" /\ Len(call_ret) = 2) =>
        LET w == call_args[1][1]
            h == call_args[1][2]
            W == call_args[2][1]
            H == call_args[2][2]
        IN  /\ call_ret[1] <= W /\ call_ret[2] <= H
            /\ call_ret[1] % 2 = 0 /\ call_ret[2] % 2 = 0
            /\ \/ /\ call_ret[1] = Even(W)
                  /\ call_ret[2] = Even((W * h) \div w)
               \/ /\ call_ret[2] = Even(H)
                  /\ call_ret[1] = Even((H * w) \div h)

(***************************************************************************)
(* Properties of extract_codecs.                                           *)
(***************************************************************************)
\* the dump of the call
Dump == call_args[1]

\* the position of the header line of the atom
HeaderOf(kind) == CHOOSE i \in 1..Len(Dump) : Dump[i].kind = kind

\* the lines of the scope of the header at position hdr: those that follow
\* it up to the first line that is not indented deeper than the header
Scope(hdr) ==
    {j \in (hdr + 1)..Len(Dump) :
        \A k \in (hdr + 1)..j : Dump[k].indent > Dump[hdr].indent}

\* the lines of the scope that give the attribute
Giving(hdr, name) ==
    {j \in Scope(hdr) : Dump[j].kind = "attribute" /\ Dump[j].name = name}

\* the value of the attribute in the scope (where given twice, the last)
ValueOf(hdr, name) == Dump[Largest(Giving(hdr, name))].value

\* v < 256 as two lowercase hexadecimal digits
TwoHex(v) == <<HexDigits[(v \div 16) + 1], HexDigits[(v % 16) + 1]>>

\* a dump with one sample description, avc1, and one avcC header
IsAvcDump ==
    /\ Codecs(Dump) = {"avc1"}
    /\ Cardinality({i \in 1..Len(Dump) : Dump[i].kind = "avcC"}) = 1

\* C15: for a dump with an avc1 sample description and an avcC header,
\* extract_codecs reads AVCProfileIndication, profile_compatibility and
\* AVCLevelIndication only from the lines that follow the header and are
\* indented deeper than it, up to the first line that is not; with all three
\* it yields avc1. and the three values as two lowercase hex digits each
\* (100, 0, 31 gives avc1.64001f), and with one missing in the scope it
\* fails with "unable to decode AVC1 codec".
C15_Avc1 ==
    (pc = "done" /\ IsAvcDump) =>
        LET hdr == HeaderOf("avcC")
            names == <<"AVCProfileIndication", "profile_compatibility",
                       "AVCLevelIndication">>
        IN  IF \A k \in 1..3 : Giving(hdr, names[k]) # {}
            THEN LET profile == ValueOf(hdr, names[1])
                     constraints == ValueOf(hdr, names[2])
                     level == ValueOf(hdr, names[3])
                 IN  /\ ~call_ret.raised
                     /\ Len(call_ret.ids) = 1
                     /\ call_ret.ids[1].codec = "avc1"
                     /\ call_ret.ids[1].hex =
                            TwoHex(profile) \o TwoHex(constraints)
                                \o TwoHex(level)
                     /\ (profile = 100 /\ constraints = 0 /\ level = 31) =>
                            call_ret.ids[1].hex =
                                <<"6", "4", "0", "0", "1", "f">>
            ELSE call_ret = Raised("unable to decode AVC1 codec")

\* profile 100, compatibility 0 and level 31 in the scope, then a line that
\* ends the scope and gives another level: the result is avc1.64001f
C15_Witness ==
    /\ pc = "done"
    /\ IsAvcDump
    /\ Dump[Len(Dump)] = Attribute(2, "AVCLevelIndication", 255)
    /\ ~call_ret.raised
    /\ call_ret.ids = <<Avc1Id(100, 0, 31)>>
    /\ call_ret.ids[1].hex = <<"6", "4", "0", "0", "1", "f">>

\* a dump with one sample description, mp4a, and one esds header
IsMp4aDump ==
    /\ Codecs(Dump) = {"mp4a"}
    /\ Cardinality({i \in 1..Len(Dump) : Dump[i].kind = "esds"}) = 1

\* the byte dumps of the scope: the info line under a decSpecificInfo line
ByteDumps(hdr) ==
    {j \in Scope(hdr) :
        /\ Dump[j].kind = "info"
        /\ j - 1 \in Scope(hdr)
        /\ Dump[j - 1].kind = "decSpecificInfo"}

\* C16: for a dump with an mp4a sample description and an esds header whose
\* scope holds an objectTypeId t in 0..255 and a decSpecificInfo byte dump
\* with first byte b, for every b from 0x00 to 0xFF, extract_codecs yields
\* mp4a.<t as two lowercase hex digits>.<(b & 0xF8) >> 3 in decimal>
\* (t = 64, b = 0x12 gives mp4a.40.2); it fails with "unable to decode MP4A
\* codec" only when the object type id or the byte dump is not in the scope.
C16_Mp4a ==
    (pc = "done" /\ IsMp4aDump) =>
        LET hdr == HeaderOf("esds")
            ids == Giving(hdr, "objectTypeId")
            dumps == ByteDumps(hdr)
        IN  /\ (ids # {} /\ dumps # {}) =>
                  LET t == ValueOf(hdr, "objectTypeId")
                      byte == Dump[Largest(dumps)].byte
                      b == 16 * byte[1] + byte[2]
                  IN  /\ call_ret =
                            Returned(<<[codec |-> "mp4a", hex |-> TwoHex(t),
                                        aot |-> "int", n |-> b \div 8]>>)
                      /\ (t = 64 /\ b = 18) =>
                            /\ call_ret.ids[1].hex = <<"4", "0">>
                            /\ call_ret.ids[1].n = 2
            /\ call_ret = Raised("unable to decode MP4A codec") =>
                  (ids = {} \/ dumps = {})

\* the positions (in the caller's width vector, with the audio-only 0) of
\* the renditions of the returned plan, in plan order
Positions ==
    Retained([p \in 1..Len(GivenWidths) |-> p], GivenWidths,
             technical.video, 1)

\* the name the specification gives rendition j of the returned plan when
\* the caller supplied none for it
SynthesizedName(j) ==
    IF options.video_bitrates[j] = 0 THEN Text("Audio only")
    ELSE HeightP((options.video_widths[j] * options.ratio.d)
                 \div options.ratio.n)

\* C17: in the returned plan a name supplied by the caller stays at its
\* rendition's position, and every other rendition is named "Audio only"
\* exactly when its bitrate in the returned plan is 0 and otherwise
\* "<floor(width/ratio)>p" from its own width, for every scale factor and
\* every set of pruned renditions.
C17_Names ==
    pc = "returned" =>
        /\ Len(options.video_names) = Len(Positions)
        /\ \A j \in 1..Len(Positions) :
              options.video_names[j] =
                  IF Positions[j] <= Len(given.video_names)
                  THEN given.video_names[Positions[j]]
                  ELSE SynthesizedName(j)

\* C18 as stated: some source size and requested width (the tested pair or
\* any other explored one) make the height test of the pruning step true
\* and its width test false, so that the conjunction retains a rendition
\* taller than the tolerance allows.
C18_TallerRetained ==
    \E src \in SourceSizes \cup {call_args[1]},
       w \in RequestedWidths \cup {call_args[2]} :
        /\ HeightTest(w, src[1], src[2])
        /\ ~WidthTest(w, src[1])
        /\ ~TooLarge(w, src[1], src[2])

\* C18: the pruning step combines the width test and the height test with
\* AND, and for every positive source size and every requested width the
\* two tests give the same answer, so a rendition is skipped exactly when
\* its width is more than 10% above the source width and none is retained
\* because only one of the tests held.
C18_TestsAgree ==
    (pc = "done" /\ call_ret # <<>>) =>
        /\ call_ret.skip = (call_ret.wider /\ call_ret.taller)
        /\ call_ret.wider = call_ret.taller
        /\ call_ret.skip = ExceedsByTenth(call_args[2], call_args[1][1])

\* the tests applied to a width of exactly 1.1 times the source width
\* (retained, neither test holds) on a source whose 1.1-fold height is no
\* integer
C18_Witness ==
    /\ pc = "done"
    /\ call_args = <<<<10, 9>>, 11>>
    /\ call_ret = [wider |-> FALSE, taller |-> FALSE, skip |-> FALSE]

\* the positions of the renditions pruning does not drop
KeptPositions ==
    {i \in 1..Len(options.video_widths) :
        ~Oversized(options.video_widths[i], technical.video.width,
                   technical.video.height)}

\* the place of the kept rendition i among the kept ones
Rank(i) == Cardinality({j \in KeptPositions : j <= i})

\* C19: pruning is an order-preserving filter over whole renditions: every
\* rendition is examined once however many are deleted, each retained one
\* keeps its width, bitrate, codec, profile, name and (when presets are
\* given) preset, the retained ones keep their relative order, and a
\* rendition of width 0 is never pruned.
C19_Filter ==
    [][pc = "prune" =>
        /\ \A i \in 1..Len(options.video_widths) :
              options.video_widths[i] = 0 => i \in KeptPositions
        /\ \A k \in 1..Len(video_options) :
              LET before == options[video_options[k]]
                  after == options'[video_options[k]]
              IN  IF video_options[k] = "video_presets" /\ before = <<>>
                  THEN after = <<>>
                  ELSE /\ Len(after) = Cardinality(KeptPositions)
                       /\ \A i \in KeptPositions : after[Rank(i)] = before[i]
        /\ \A f \in DOMAIN options :
              (\A k \in 1..Len(video_options) : video_options[k] # f) =>
                  options'[f] = options[f]
     ]_vars

\* pruning has dropped the rendition between two retained ones, the last
\* of width 0, with a name and a preset for each
C19_Witness ==
    /\ pc = "poster"
    /\ given.video_widths = <<1280, 3840>>
    /\ given.audio_only
    /\ options.video_widths = <<1280, 0>>
    /\ options.video_names = <<NameList[1], NameList[3]>>
    /\ options.video_presets = <<PresetList[1], PresetList[3]>>

=============================================================================
